---- MODULE Spec2Model ----
(***************************************************************************)
(* The ul URL shortener: the short-code transform (obfuscateID, base62)    *)
(* and the URL store (createShortURL, getURL, getStats, trackClick) over   *)
(* the two SQLite tables urls and clicks.                                   *)
(*                                                                         *)
(* A short code is a sequence of one-character strings, so "10" is         *)
(* <<"1", "0">> and the empty code is << >>.  A nullable column is << >>    *)
(* for NULL and <<v>> for the value v.                                      *)
(***************************************************************************)
EXTENDS Integers, Sequences, FiniteSets, TLC

\* ------------------------------------------------------------------ bounds
\* Largest clock value (CURRENT_TIMESTAMP ticks the model lets pass).
MaxTime == 1
\* Calls the model lets the callers start, all operations together.
MaxCalls == 3
\* Ids 0 .. MaxSmallId are among the ids the transform is applied to.
MaxSmallId == 130
\* Numbers 0 .. MaxEncode are among those encodeBase62 is applied to.
MaxEncode == 3844
\* Longest string parseShortCode is applied to.
MaxCodeLen == 3

\* --------------------------------------------------------- code transform
base62Chars ==
    << "0", "1", "2", "3", "4", "5", "6", "7", "8", "9",
       "A", "B", "C", "D", "E", "F", "G", "H", "I", "J", "K", "L", "M",
       "N", "O", "P", "Q", "R", "S", "T", "U", "V", "W", "X", "Y", "Z",
       "a", "b", "c", "d", "e", "f", "g", "h", "i", "j", "k", "l", "m",
       "n", "o", "p", "q", "r", "s", "t", "u", "v", "w", "x", "y", "z" >>

mixPrime == 1580030173

\* 0x5d2a8f93
xorMask == 1563070355

mixPrimeInverse == 1061834701

\* 0x7FFFFFFF, the mask of obfuscateID and deobfuscateID
Mask31 == 2147483647

\* a ^ b of Go, for a, b in 0 .. Mask31
RECURSIVE BitXor(_, _)
BitXor(a, b) ==
    IF a = 0 THEN b
    ELSE IF b = 0 THEN a
    ELSE 2 * BitXor(a \div 2, b \div 2) + (((a % 2) + (b % 2)) % 2)

\* (a + b) & 0x7FFFFFFF for a, b in 0 .. Mask31, without leaving 0 .. Mask31
AddMask(a, b) ==
    IF a > Mask31 - b THEN (a - (Mask31 - b)) - 1 ELSE a + b

\* (a * b) & 0x7FFFFFFF for a, b in 0 .. Mask31.  The int64 product of two
\* 31-bit values is below 2^62 and does not wrap, and the mask keeps its low
\* 31 bits; shift-and-add with every partial sum masked gives the same bits.
RECURSIVE MulMask(_, _)
MulMask(a, b) ==
    IF a = 0 \/ b = 0 THEN 0
    ELSE IF b % 2 = 1
         THEN AddMask(MulMask(AddMask(a, a), b \div 2), a)
         ELSE MulMask(AddMask(a, a), b \div 2)

\* The mixing with the low bit of the masked id dropped.
obfuscateIDShifted(id) == MulMask(BitXor(id, xorMask) \div 2, mixPrime)

\* The mask added to the id, with no mixing.
obfuscateIDOffset(id) == AddMask(id, xorMask)

obfuscateID(id) == MulMask(BitXor(id, xorMask), mixPrime)

\* The low 31 bits of an int64 in two's complement.
low31(id) == IF id < 0 THEN (id + Mask31) + 1 ELSE id

\* obfuscateID leaving a negative id as it is.
obfuscateInt64Signed(id) == IF id < 0 THEN id ELSE obfuscateID(id)

\* obfuscateID on any int64: XOR and the wrapping product work bit by bit
\* from the low end, so the 31 bits the mask keeps are those computed from
\* the low 31 bits of id.
obfuscateInt64(id) == obfuscateID(low31(id))

deobfuscateID(obfuscated) ==
    BitXor(MulMask(obfuscated, mixPrimeInverse), xorMask)

\* The loop writing the least significant digit first.
RECURSIVE encodeLoopReversed(_, _)
encodeLoopReversed(num, result) ==
    IF num > 0
    THEN encodeLoopReversed(num \div Len(base62Chars),
                            result \o <<base62Chars[(num % Len(base62Chars)) + 1]>>)
    ELSE result

\* the for num > 0 loop of encodeBase62
RECURSIVE encodeLoop(_, _)
encodeLoop(num, result) ==
    IF num > 0
    THEN encodeLoop(num \div Len(base62Chars),
                    <<base62Chars[(num % Len(base62Chars)) + 1]>> \o result)
    ELSE result

\* encodeBase62 with a "0" put before every code.
encodeBase62Padded(num) ==
    <<base62Chars[1]>> \o encodeLoop(num, << >>)

encodeBase62(num) ==
    IF num = 0 THEN <<base62Chars[1]>> ELSE encodeLoop(num, << >>)

\* The inner loop taking a character it does not find for the digit 0.
charValueLenient(char) ==
    IF \E i \in 1 .. Len(base62Chars) : base62Chars[i] = char
    THEN (CHOOSE i \in 1 .. Len(base62Chars) : base62Chars[i] = char) - 1
    ELSE 0

\* the inner loop of decodeBase62: the index of char in base62Chars, or -1
charValue(char) ==
    IF \E i \in 1 .. Len(base62Chars) : base62Chars[i] = char
    THEN (CHOOSE i \in 1 .. Len(base62Chars) : base62Chars[i] = char) - 1
    ELSE -1

\* the outer loop of decodeBase62 from position i with accumulator num
RECURSIVE decodeLoop(_, _, _)
decodeLoop(encoded, i, num) ==
    IF i > Len(encoded) THEN [num |-> num, err |-> FALSE]
    ELSE IF charValue(encoded[i]) = -1 THEN [num |-> 0, err |-> TRUE]
    ELSE decodeLoop(encoded, i + 1,
                    num * Len(base62Chars) + charValue(encoded[i]))

\* decodeBase62 starting at the second character.
decodeBase62Skip(encoded) == decodeLoop(encoded, 2, 0)

decodeBase62(encoded) == decodeLoop(encoded, 1, 0)

generateShortCode(id) == encodeBase62(obfuscateID(id))

\* [id, err]: the (int64, error) pair of parseShortCode
parseShortCode(shortCode) ==
    IF decodeBase62(shortCode).err
    THEN [id |-> 0, err |-> TRUE]
    ELSE [id |-> deobfuscateID(decodeBase62(shortCode).num), err |-> FALSE]


\* ------------------------------------------------------------- url.Parse
\* What net/url.Parse returns for the request strings the model submits:
\* err is whether it returns an error, Scheme and Host the parsed fields
\* (the scheme is lower-cased by Parse).
URLTable ==
    { [raw |-> "",                     err |-> FALSE, Scheme |-> "",      Host |-> ""],
      [raw |-> "not-a-url",            err |-> FALSE, Scheme |-> "",      Host |-> ""],
      [raw |-> "ftp://example.com",    err |-> FALSE, Scheme |-> "ftp",   Host |-> "example.com"],
      [raw |-> "https://",             err |-> FALSE, Scheme |-> "https", Host |-> ""],
      [raw |-> "://example.com",       err |-> TRUE,  Scheme |-> "",      Host |-> ""],
      [raw |-> "http://exa mple.com",  err |-> TRUE,  Scheme |-> "",      Host |-> ""],
      [raw |-> "https://example.com",  err |-> FALSE, Scheme |-> "https", Host |-> "example.com"],
      [raw |-> "http://example.com",   err |-> FALSE, Scheme |-> "http",  Host |-> "example.com"] }

ParseURL(rawURL) == CHOOSE e \in URLTable : e.raw = rawURL

\* The request strings submitted to createShortURL.
URLInputs == { e.raw : e \in URLTable }

\* Those submitted while other calls run: two valid URLs and an invalid one.
StoreURLs == {"https://example.com", "http://example.com", "ftp://example.com"}

\* ------------------------------------------------------------ validateURL
\* validateURL without its host check.
validateURLNoHost(rawURL) ==
    IF rawURL = "" THEN "URL cannot be empty"
    ELSE IF ParseURL(rawURL).err THEN "invalid URL format"
    ELSE IF ParseURL(rawURL).Scheme # "http" /\ ParseURL(rawURL).Scheme # "https"
         THEN "URL must use http or https scheme"
    ELSE "nil"

\* The error of validateURL, "nil" for none.
validateURL(rawURL) ==
    IF rawURL = "" THEN "URL cannot be empty"
    ELSE IF ParseURL(rawURL).err THEN "invalid URL format"
    ELSE IF ParseURL(rawURL).Scheme # "http" /\ ParseURL(rawURL).Scheme # "https"
         THEN "URL must use http or https scheme"
    ELSE IF ParseURL(rawURL).Host = "" THEN "URL must have a valid host"
    ELSE "nil"

\* --------------------------------------------------------------- the store
VARIABLES
    urls,          \* the rows of table urls
    urlSeq,        \* the AUTOINCREMENT sequence of urls
    clicks,        \* the rows of table clicks: id and url_id (clicked_at,
                   \* user_agent, referer and ip_address are never read)
    clickSeq,      \* the AUTOINCREMENT sequence of clicks
    foreign_keys,  \* whether the connection enforces FOREIGN KEY constraints
    writer,        \* the caller whose open transaction holds the write lock
    now,           \* CURRENT_TIMESTAMP
    call,          \* per caller: the call in progress and its locals
    ret,           \* per caller: what its last call returned
    calls,         \* number of calls started
    firstResp,     \* per URL: what the first successful createShortURL returned
    tracked,       \* per id: successful trackClick calls for the existing record
    tid,           \* code transform: the id it is applied to
    tstage,        \* code transform: "id", "code" or "parsed"
    tcode,         \* code transform: generateShortCode(tid)
    tparsed,       \* code transform: parseShortCode(tcode)
    resp,          \* per caller: the HTTP response of its last request
    served         \* per id: 301 redirects served for the record

dbvars == <<urls, urlSeq, clicks, clickSeq, foreign_keys, writer, now>>
procvars == <<call, ret, calls, firstResp, tracked>>
codecvars == <<tid, tstage, tcode, tparsed>>
httpvars == <<resp, served>>
vars == <<dbvars, procvars, codecvars, httpvars>>

\* The concurrent callers (request goroutines).
Procs == {"p1", "p2"}

\* The goroutines handleRedirect starts for trackClick.
Tasks == {"g1", "g2"}

NoWriter == "none"

NULL == << >>

\* The ids trackClick is called with: the first two ids the store issues,
\* which are ids of no record until it has issued them.
TrackIds == {1, 2}

\* The short codes getURL and getStats are called with.
CodeInputs ==
    { << >>, <<"n", "o", "n", "e", "x", "i", "s", "t", "e", "n", "t">>,
      generateShortCode(1) }

IdleCall ==
    [op |-> "idle", pc |-> "idle", url |-> "", id |-> 0, wrote |-> FALSE,
     t_upd |-> 0, path |-> << >>, task |-> "none"]

NoRet ==
    [op |-> "none", err |-> "nil", arg_url |-> "", arg_code |-> << >>,
     arg_id |-> 0, existing |-> FALSE, wrote |-> FALSE, id |-> 0,
     short_code |-> << >>, original_url |-> "", created_at |-> 0,
     clicks |-> 0, last_clicked_at |-> NULL, served |-> 0]

NoResp == << >>

\* SELECT ... FROM urls WHERE id = ?
rowById(id) == CHOOSE r \in urls : r.id = id

\* SELECT id FROM urls WHERE original_url = ? : the matching rows.  QueryRow
\* scans the first one; the search runs in rowid order (idx_original_url
\* holds (original_url, rowid)), so that is the row of least id.
rowsByURL(rawURL) == { r \in urls : r.original_url = rawURL }

firstId(rows) == CHOOSE i \in { r.id : r \in rows } :
                     \A r \in rows : i <= r.id

\* The constraint left out: every short_code is accepted.
shortCodeTakenNever(code, exceptId) == FALSE

\* The constraint taking empty codes for distinct, as it does NULLs.
shortCodeTakenNonEmpty(code, exceptId) ==
    code # << >> /\ \E r \in urls : r.short_code = code /\ r.id # exceptId

\* The UNIQUE constraint of urls.short_code: a row other than exceptId holds
\* the code already.
shortCodeTaken(code, exceptId) ==
    \E r \in urls : r.short_code = code /\ r.id # exceptId

\* The FOREIGN KEY of clicks.url_id, checked when foreign_keys is on.
foreignKeyFails(urlID) ==
    foreign_keys /\ ~ \E r \in urls : r.id = urlID


\* ----------------------------------------------------------- createShortURL
\* What a createShortURL call of caller p for rawURL returns: the fields of
\* ShortenResponse, or the error err.
createRet(p, rawURL, err, existing, shortCode, record) ==
    [NoRet EXCEPT !.op = "create", !.err = err, !.arg_url = rawURL,
                  !.existing = existing, !.wrote = call[p].wrote,
                  !.id = record.id, !.short_code = shortCode,
                  !.original_url = record.original_url,
                  !.created_at = record.created_at]

createFail(p, rawURL, err) ==
    [NoRet EXCEPT !.op = "create", !.err = err, !.arg_url = rawURL,
                  !.wrote = call[p].wrote]

\* The first successful response for a URL is remembered.
noteResp(r) ==
    IF r.err = "nil" /\ firstResp[r.arg_url] = NoResp
    THEN [firstResp EXCEPT ![r.arg_url] =
              <<[short_code |-> r.short_code, created_at |-> r.created_at]>>]
    ELSE firstResp

\* The call starts: validateURL, then SELECT id FROM urls WHERE original_url.
\* ok is whether the SELECT runs without a database error.
createCall(p, rawURL, ok) ==
    /\ call[p].op = "idle"
    /\ calls < MaxCalls
    /\ calls' = calls + 1
    /\ IF validateURL(rawURL) # "nil"
       THEN /\ ret' = [ret EXCEPT ![p] = createFail(p, rawURL, validateURL(rawURL))]
            /\ call' = call
       ELSE IF ~ ok
       THEN /\ ret' = [ret EXCEPT ![p] = createFail(p, rawURL, "database error")]
            /\ call' = call
       ELSE /\ ret' = [ret EXCEPT ![p] = NoRet]
            /\ call' = [call EXCEPT ![p] =
                 IF rowsByURL(rawURL) # {}
                 THEN [IdleCall EXCEPT !.op = "create", !.pc = "fetch_existing",
                                       !.url = rawURL,
                                       !.id = firstId(rowsByURL(rawURL))]
                 ELSE [IdleCall EXCEPT !.op = "create", !.pc = "insert",
                                       !.url = rawURL]]
    /\ UNCHANGED <<dbvars, firstResp, tracked, codecvars>>

\* createShortURL called directly, as the store tests call it.
CreateCall(p, rawURL, ok) ==
    /\ createCall(p, rawURL, ok)
    /\ UNCHANGED httpvars

\* The URL exists: the code is computed from existingID, the rest is read.
CreateFetchExisting(p) ==
    /\ call[p].op = "create" /\ call[p].pc = "fetch_existing"
    /\ ret' = [ret EXCEPT ![p] =
                 createRet(p, call[p].url, "nil", TRUE,
                           generateShortCode(call[p].id), rowById(call[p].id))]
    /\ firstResp' = noteResp(ret'[p])
    /\ call' = [call EXCEPT ![p] = IdleCall]
    /\ UNCHANGED <<dbvars, calls, tracked, codecvars, httpvars>>

\* The INSERT taking the current sequence value as the id.
newRowStale(rawURL) ==
    [id |-> urlSeq, short_code |-> << >>, original_url |-> rawURL,
     created_at |-> now, clicks |-> 0, last_clicked_at |-> NULL]

\* INSERT INTO urls (short_code, original_url) VALUES ('', ?)
newRow(rawURL) ==
    [id |-> urlSeq + 1, short_code |-> << >>, original_url |-> rawURL,
     created_at |-> now, clicks |-> 0, last_clicked_at |-> NULL]

CreateInsert(p) ==
    /\ call[p].op = "create" /\ call[p].pc = "insert"
    /\ writer = NoWriter
    /\ IF shortCodeTaken(<< >>, 0)
       THEN /\ ret' = [ret EXCEPT ![p] =
                         createFail(p, call[p].url, "failed to insert URL")]
            /\ call' = [call EXCEPT ![p] = IdleCall]
            /\ UNCHANGED <<urls, urlSeq>>
       ELSE /\ urls' = urls \cup {newRow(call[p].url)}
            /\ urlSeq' = urlSeq + 1
            /\ call' = [call EXCEPT ![p].pc = "update", ![p].id = urlSeq + 1,
                                    ![p].wrote = TRUE]
            /\ ret' = ret
    /\ UNCHANGED <<clicks, clickSeq, foreign_keys, writer, now, calls,
                   firstResp, tracked, codecvars, httpvars>>

\* The UPDATE storing the plain base62 of the id.
setShortCodePlain(id, shortCode) ==
    { IF r.id = id THEN [r EXCEPT !.short_code = encodeBase62(id)] ELSE r :
      r \in urls }

\* UPDATE urls SET short_code = ? WHERE id = ?
setShortCode(id, shortCode) ==
    { IF r.id = id THEN [r EXCEPT !.short_code = shortCode] ELSE r : r \in urls }

CreateUpdate(p) ==
    /\ call[p].op = "create" /\ call[p].pc = "update"
    /\ writer = NoWriter
    /\ IF shortCodeTaken(generateShortCode(call[p].id), call[p].id)
       THEN /\ ret' = [ret EXCEPT ![p] =
                         createFail(p, call[p].url, "failed to update short code")]
            /\ call' = [call EXCEPT ![p] = IdleCall]
            /\ urls' = urls
       ELSE /\ urls' = setShortCode(call[p].id, generateShortCode(call[p].id))
            /\ call' = [call EXCEPT ![p].pc = "fetch_created"]
            /\ ret' = ret
    /\ UNCHANGED <<urlSeq, clicks, clickSeq, foreign_keys, writer, now, calls,
                   firstResp, tracked, codecvars, httpvars>>

\* The final SELECT: the response carries the stored short_code.
CreateFetchCreated(p) ==
    /\ call[p].op = "create" /\ call[p].pc = "fetch_created"
    /\ ret' = [ret EXCEPT ![p] =
                 createRet(p, call[p].url, "nil", FALSE,
                           rowById(call[p].id).short_code, rowById(call[p].id))]
    /\ firstResp' = noteResp(ret'[p])
    /\ call' = [call EXCEPT ![p] = IdleCall]
    /\ UNCHANGED <<dbvars, calls, tracked, codecvars, httpvars>>

\* The statement the call is at fails in the database (I/O, busy, locked):
\* each err != nil branch returns, and nothing is written.
createError(pc) ==
    CASE pc = "fetch_existing" -> "failed to fetch existing record"
      [] pc = "insert"         -> "failed to insert URL"
      [] pc = "update"         -> "failed to update short code"
      [] pc = "fetch_created"  -> "failed to fetch created record"

\* The failing call removing the row it inserted.
CreateStorageErrorCleanup(p) ==
    /\ call[p].op = "create"
    /\ ret' = [ret EXCEPT ![p] =
                 createFail(p, call[p].url, createError(call[p].pc))]
    /\ call' = [call EXCEPT ![p] = IdleCall]
    /\ urls' = { r \in urls : ~ (call[p].wrote /\ r.id = call[p].id) }
    /\ UNCHANGED <<urlSeq, clicks, clickSeq, foreign_keys, writer, now, calls,
                   firstResp, tracked, codecvars, httpvars>>

CreateStorageError(p) ==
    /\ call[p].op = "create"
    /\ ret' = [ret EXCEPT ![p] =
                 createFail(p, call[p].url, createError(call[p].pc))]
    /\ call' = [call EXCEPT ![p] = IdleCall]
    /\ UNCHANGED <<dbvars, calls, firstResp, tracked, codecvars, httpvars>>


\* ------------------------------------------------------ getURL and getStats
\* SELECT ... FROM urls WHERE short_code = ? : short_code is UNIQUE, so at
\* most one row matches.
rowsByCode(shortCode) == { r \in urls : r.short_code = shortCode }

\* What getURL(shortCode) returns when the query runs: the record, or the
\* error "short code not found" for sql.ErrNoRows.
getURL(shortCode) ==
    IF rowsByCode(shortCode) = {}
    THEN [NoRet EXCEPT !.op = "getURL", !.arg_code = shortCode,
                       !.err = "short code not found"]
    ELSE LET r == CHOOSE x \in rowsByCode(shortCode) : TRUE
         IN  [NoRet EXCEPT !.op = "getURL", !.arg_code = shortCode,
                           !.id = r.id, !.short_code = r.short_code,
                           !.original_url = r.original_url,
                           !.created_at = r.created_at, !.clicks = r.clicks,
                           !.last_clicked_at = r.last_clicked_at]

\* getStats reporting no clicks at all.
getStatsNoClicks(shortCode) ==
    IF rowsByCode(shortCode) = {}
    THEN [NoRet EXCEPT !.op = "getStats", !.arg_code = shortCode,
                       !.err = "short code not found"]
    ELSE LET r == CHOOSE x \in rowsByCode(shortCode) : TRUE
         IN  [NoRet EXCEPT !.op = "getStats", !.arg_code = shortCode,
                           !.short_code = r.short_code,
                           !.original_url = r.original_url,
                           !.created_at = r.created_at]

\* getStats: the same query without the id column; clicks is TotalClicks.
getStats(shortCode) ==
    IF rowsByCode(shortCode) = {}
    THEN [NoRet EXCEPT !.op = "getStats", !.arg_code = shortCode,
                       !.err = "short code not found"]
    ELSE LET r == CHOOSE x \in rowsByCode(shortCode) : TRUE
         IN  [NoRet EXCEPT !.op = "getStats", !.arg_code = shortCode,
                           !.short_code = r.short_code,
                           !.original_url = r.original_url,
                           !.created_at = r.created_at, !.clicks = r.clicks,
                           !.last_clicked_at = r.last_clicked_at]

GetURL(p, shortCode, ok) ==
    /\ call[p].op = "idle"
    /\ calls < MaxCalls
    /\ calls' = calls + 1
    /\ ret' = [ret EXCEPT ![p] =
                 IF ok THEN getURL(shortCode)
                 ELSE [NoRet EXCEPT !.op = "getURL", !.arg_code = shortCode,
                                    !.err = "database error"]]
    /\ UNCHANGED <<dbvars, call, firstResp, tracked, codecvars, httpvars>>

\* The redirects served so far for the record a getStats call reads.
servedWhenRead(shortCode) ==
    IF \E r \in rowsByCode(shortCode) : r.id \in DOMAIN served
    THEN served[(CHOOSE r \in rowsByCode(shortCode) : TRUE).id]
    ELSE 0

GetStats(p, shortCode, ok) ==
    /\ call[p].op = "idle"
    /\ calls < MaxCalls
    /\ calls' = calls + 1
    /\ ret' = [ret EXCEPT ![p] =
                 IF ok THEN [getStats(shortCode) EXCEPT
                                 !.served = servedWhenRead(shortCode)]
                 ELSE [NoRet EXCEPT !.op = "getStats", !.arg_code = shortCode,
                                    !.err = "database error"]]
    /\ UNCHANGED <<dbvars, call, firstResp, tracked, codecvars, httpvars>>

\* ---------------------------------------------------------------- trackClick
trackRet(urlID, err) ==
    [NoRet EXCEPT !.op = "track", !.arg_id = urlID, !.err = err]

\* The call starts with a.db.Begin(); ok is whether it succeeds.
TrackCall(p, urlID, ok) ==
    /\ call[p].op = "idle"
    /\ calls < MaxCalls
    /\ calls' = calls + 1
    /\ IF ok
       THEN /\ call' = [call EXCEPT ![p] =
                 [IdleCall EXCEPT !.op = "track", !.pc = "insert_click",
                                  !.id = urlID]]
            /\ ret' = [ret EXCEPT ![p] = NoRet]
       ELSE /\ call' = call
            /\ ret' = [ret EXCEPT ![p] =
                         trackRet(urlID, "failed to begin transaction")]
    /\ UNCHANGED <<dbvars, firstResp, tracked, codecvars, httpvars>>

\* tx.Exec(INSERT INTO clicks ...): the first write of the transaction takes
\* the database write lock, held until Commit or Rollback; the row stays in
\* the transaction until then.  An enforced foreign key rejects the row.
TrackInsert(p) ==
    /\ call[p].op = "track" /\ call[p].pc = "insert_click"
    /\ writer = NoWriter
    /\ IF foreignKeyFails(call[p].id)
       THEN /\ ret' = [ret EXCEPT ![p] =
                         trackRet(call[p].id, "failed to insert click record")]
            /\ call' = [call EXCEPT ![p] = IdleCall]
            /\ writer' = writer
       ELSE /\ call' = [call EXCEPT ![p].pc = "update_stats", ![p].wrote = TRUE]
            /\ writer' = p
            /\ ret' = ret
    /\ UNCHANGED <<urls, urlSeq, clicks, clickSeq, foreign_keys, now, calls,
                   firstResp, tracked, codecvars, httpvars>>

\* tx.Exec(UPDATE urls SET clicks = clicks + 1, last_clicked_at =
\* CURRENT_TIMESTAMP WHERE id = ?), inside the transaction; a WHERE that
\* matches no row is no error.
TrackUpdate(p) ==
    /\ call[p].op = "track" /\ call[p].pc = "update_stats"
    /\ call' = [call EXCEPT ![p].pc = "commit", ![p].t_upd = now]
    /\ UNCHANGED <<dbvars, ret, calls, firstResp, tracked, codecvars, httpvars>>

\* The UPDATE writing a stale count instead of clicks + 1.
clickedRowStale(r, t) ==
    [r EXCEPT !.clicks = 1, !.last_clicked_at = <<t>>]

\* The UPDATE setting last_clicked_at only.
clickedRowNoCount(r, t) ==
    [r EXCEPT !.last_clicked_at = <<t>>]

\* The UPDATE leaving last_clicked_at alone.
clickedRowNoStamp(r, t) ==
    [r EXCEPT !.clicks = r.clicks + 1]

\* The row of the UPDATE of trackClick.
clickedRow(r, t) ==
    [r EXCEPT !.clicks = r.clicks + 1, !.last_clicked_at = <<t>>]

\* The transaction losing its INSERT at Commit.
insertedClickLost(urlID) == {}

\* The INSERT writing its row twice.
insertedClickTwice(urlID) ==
    { [id |-> clickSeq + 1, url_id |-> urlID],
      [id |-> clickSeq + 2, url_id |-> urlID] }

\* The row of the INSERT of trackClick.
insertedClick(urlID) == { [id |-> clickSeq + 1, url_id |-> urlID] }

\* tx.Commit(): both statements take effect at once.  No other write ran
\* since the INSERT (the lock), so clicks + 1 is what the UPDATE computed.
TrackCommit(p) ==
    /\ call[p].op = "track" /\ call[p].pc = "commit"
    /\ clicks' = clicks \cup insertedClick(call[p].id)
    /\ clickSeq' = clickSeq + 1
    /\ urls' = { IF r.id = call[p].id THEN clickedRow(r, call[p].t_upd) ELSE r :
                 r \in urls }
    /\ writer' = NoWriter
    /\ tracked' = IF \E r \in urls : r.id = call[p].id
                  THEN [tracked EXCEPT ![call[p].id] = @ + 1]
                  ELSE tracked
    /\ ret' = [ret EXCEPT ![p] = trackRet(call[p].id, "nil")]
    /\ call' = [call EXCEPT ![p] = IdleCall]
    /\ UNCHANGED <<urlSeq, foreign_keys, now, calls, firstResp, codecvars, httpvars>>

\* A statement of the transaction, or its Commit, fails: the deferred
\* tx.Rollback() drops what the transaction wrote and frees the lock.
trackError(pc) ==
    CASE pc = "insert_click" -> "failed to insert click record"
      [] pc = "update_stats" -> "failed to update URL statistics"
      [] pc = "commit"       -> "failed to commit transaction"

TrackStorageError(p) ==
    /\ call[p].op = "track" /\ call[p].pc # "begin"
    /\ ret' = [ret EXCEPT ![p] = trackRet(call[p].id, trackError(call[p].pc))]
    /\ call' = [call EXCEPT ![p] = IdleCall]
    /\ writer' = IF writer = p THEN NoWriter ELSE writer
    /\ UNCHANGED <<urls, urlSeq, clicks, clickSeq, foreign_keys, now, calls,
                   firstResp, tracked, codecvars, httpvars>>

\* ------------------------------------------------------------ handleRedirect
\* strings.HasPrefix, HasSuffix, TrimPrefix and TrimSuffix on paths, which
\* are sequences of one-character strings like the codes.
HasPrefix(str, prefix) ==
    Len(str) >= Len(prefix) /\ SubSeq(str, 1, Len(prefix)) = prefix

HasSuffix(str, suffix) ==
    /\ Len(str) >= Len(suffix)
    /\ SubSeq(str, Len(str) - Len(suffix) + 1, Len(str)) = suffix

TrimPrefix(str, prefix) ==
    IF HasPrefix(str, prefix) THEN SubSeq(str, Len(prefix) + 1, Len(str)) ELSE str

TrimSuffix(str, suffix) ==
    IF HasSuffix(str, suffix) THEN SubSeq(str, 1, Len(str) - Len(suffix)) ELSE str

\* The request paths of GET /{shortened}: "/", "/health", the path of the
\* first code the store issues, with and without a trailing slash, and the
\* path of a code of no record.
RedirectPaths ==
    { <<"/">>, <<"/", "h", "e", "a", "l", "t", "h">>,
      <<"/">> \o generateShortCode(1),
      <<"/">> \o generateShortCode(1) \o <<"/">>,
      <<"/", "n", "o", "n", "e">> }

\* An HTTP response.  code, ok and found describe the request it answers:
\* the short code of its path, whether the lookup ran without a database
\* error, and the id of the record that had the code then (<<>> for none).
NoHTTP ==
    [op |-> "none", path |-> << >>, code |-> << >>, ok |-> TRUE,
     found |-> NULL, status |-> 0, location |-> "", task |-> "none",
     lookup |-> FALSE, url |-> "", err |-> "nil", wrote |-> FALSE,
     prior |-> {}]

\* The handler of p has called createShortURL and not written its response.
pending(p) == resp[p].op \in {"shorten", "shortenGET"} /\ resp[p].status = 0

\* The filter without its "health" case.
specialEndpointNoHealth(shortCode) ==
    \/ shortCode = << >>
    \/ HasSuffix(shortCode, <<"/", "s", "t", "a", "t", "s">>)
    \/ HasSuffix(shortCode, <<"/", "q", "r">>)

\* The special endpoints handleRedirect answers with http.NotFound.
specialEndpoint(shortCode) ==
    \/ shortCode = << >>
    \/ shortCode = <<"h", "e", "a", "l", "t", "h">>
    \/ HasSuffix(shortCode, <<"/", "s", "t", "a", "t", "s">>)
    \/ HasSuffix(shortCode, <<"/", "q", "r">>)

\* The tracking goroutine the next redirect starts: goroutines are not
\* limited in number, the model has those of Tasks.
freeTasks == { g \in Tasks : call[g].op = "idle" }

nextTask == CHOOSE g \in freeTasks : \A h \in freeTasks : g = "g1" \/ h # "g1"

\* The redirect answering with the short code in place of the original URL.
redirectLocationCode(record) == "code"

\* The Location of http.Redirect(w, r, record.OriginalURL, 301).
redirectLocation(record) == record.original_url

\* The short code handleRedirect looks up for a path.
redirectCode(path) == TrimSuffix(TrimPrefix(path, <<"/">>), <<"/">>)

redirectResp(path, ok, status, location, task) ==
    [NoHTTP EXCEPT !.op = "redirect", !.path = path,
                   !.code = redirectCode(path), !.ok = ok,
                   !.found = IF rowsByCode(redirectCode(path)) = {}
                             THEN NULL
                             ELSE <<getURL(redirectCode(path)).id>>,
                   !.status = status, !.location = location, !.task = task,
                   !.lookup = ~ specialEndpoint(TrimPrefix(path, <<"/">>))]

\* GET /{shortened} up to its go statement: the filter, the lookup, and
\* either http.NotFound or the start of the tracking goroutine.  ok is
\* whether the query of getURL runs without a database error.  The
\* goroutine runs from here on, while the handler has yet to write its
\* response.
handleRedirect(p, path, ok) ==
    /\ call[p].op = "idle"
    /\ ~ pending(p)
    /\ calls < MaxCalls
    /\ calls' = calls + 1
    /\ LET record == IF ok THEN getURL(redirectCode(path))
                     ELSE [NoRet EXCEPT !.op = "getURL", !.err = "database error"]
       IN  IF specialEndpoint(TrimPrefix(path, <<"/">>)) \/ record.err # "nil"
           THEN /\ resp' = [resp EXCEPT ![p] =
                     [redirectResp(path, ok, 404, "", "none") EXCEPT
                        !.err = IF specialEndpoint(TrimPrefix(path, <<"/">>))
                                THEN "nil" ELSE record.err]]
                /\ call' = call
           ELSE /\ freeTasks # {}
                /\ record.id \in TrackIds
                /\ call' = [call EXCEPT
                     ![nextTask] =
                         [IdleCall EXCEPT !.op = "track", !.pc = "begin",
                                          !.id = record.id],
                     ![p] =
                         [IdleCall EXCEPT !.op = "redirect", !.pc = "respond",
                                          !.path = path, !.id = record.id,
                                          !.url = record.original_url,
                                          !.task = nextTask]]
                /\ resp' = [resp EXCEPT ![p] = NoHTTP]
    /\ UNCHANGED <<dbvars, ret, firstResp, tracked, served, codecvars>>

\* The rest of the handler after the go statement: the log line and
\* http.Redirect(w, r, record.OriginalURL, http.StatusMovedPermanently).
redirectRespond(p) ==
    /\ call[p].op = "redirect" /\ call[p].pc = "respond"
    /\ resp' = [resp EXCEPT ![p] =
         [redirectResp(call[p].path, TRUE, 301,
                       redirectLocation([NoRet EXCEPT !.id = call[p].id,
                                                      !.original_url = call[p].url]),
                       call[p].task)
            EXCEPT !.found = <<call[p].id>>]]
    /\ served' = [served EXCEPT ![call[p].id] = @ + 1]
    /\ call' = [call EXCEPT ![p] = IdleCall]
    /\ UNCHANGED <<dbvars, ret, calls, firstResp, tracked, codecvars>>

\* The goroutine runs: trackClick starts with a.db.Begin(); ok is whether
\* it succeeds.
TrackBegin(g, ok) ==
    /\ call[g].op = "track" /\ call[g].pc = "begin"
    /\ IF ok
       THEN /\ call' = [call EXCEPT ![g].pc = "insert_click"]
            /\ ret' = [ret EXCEPT ![g] = NoRet]
       ELSE /\ call' = [call EXCEPT ![g] = IdleCall]
            /\ ret' = [ret EXCEPT ![g] =
                         trackRet(call[g].id, "failed to begin transaction")]
    /\ UNCHANGED <<dbvars, calls, firstResp, tracked, codecvars, httpvars>>

\* ------------------------------------------------------------------- time
\* CURRENT_TIMESTAMP is read by the INSERT of createShortURL (created_at)
\* and the UPDATE of trackClick (last_clicked_at).  The clock moves on once
\* its value has been read: values no statement read are not told apart.
stamped(t) ==
    \/ \E r \in urls : r.created_at = t \/ r.last_clicked_at = <<t>>
    \/ \E p \in DOMAIN call : call[p].pc = "commit" /\ call[p].t_upd = t

Tick ==
    /\ now < MaxTime
    /\ stamped(now)
    /\ now' = now + 1
    /\ UNCHANGED <<urls, urlSeq, clicks, clickSeq, foreign_keys, writer,
                   procvars, codecvars, httpvars>>

\* ------------------------------------------------- the code transform runs
\* The ids the transform is applied to: the small ids, the ids of
\* TestObfuscateID, the mask itself and the largest 31-bit id.
SampleIds == (0 .. MaxSmallId) \cup {999999, xorMask, Mask31}

Generate ==
    /\ tstage = "id"
    /\ tcode' = generateShortCode(tid)
    /\ tstage' = "code"
    /\ UNCHANGED <<dbvars, procvars, httpvars, tid, tparsed>>

Parse ==
    /\ tstage = "code"
    /\ tparsed' = parseShortCode(tcode)
    /\ tstage' = "parsed"
    /\ UNCHANGED <<dbvars, procvars, httpvars, tid, tcode>>

\* obfuscateID applied on its own.  The ids 2^k - 1 end in k ones: adding
\* one to them carries through k bits, and every id of 0 .. 2^31-2 ends in
\* some k <= 30 ones.  The negative ids are int64 values below zero.
CarryIds == { 2^k - 1 : k \in 0 .. 30 }

ObfuscateIds ==
    SampleIds \cup CarryIds \cup {-1, -100, -999999, -Mask31, (-Mask31) - 1}

Obfuscate ==
    /\ tstage = "id"
    /\ tparsed' = [id |-> obfuscateInt64(tid), err |-> FALSE]
    /\ tstage' = "obfuscated"
    /\ UNCHANGED <<dbvars, procvars, httpvars, tid, tcode>>

\* encodeBase62 and decodeBase62 applied on their own.
EncodeInputs == (0 .. MaxEncode) \cup {Mask31}

Encode ==
    /\ tstage = "num"
    /\ tcode' = encodeBase62(tid)
    /\ tstage' = "encoded"
    /\ UNCHANGED <<dbvars, procvars, httpvars, tid, tparsed>>

Decode ==
    /\ tstage = "encoded"
    /\ tparsed' = [id |-> decodeBase62(tcode).num, err |-> decodeBase62(tcode).err]
    /\ tstage' = "decoded"
    /\ UNCHANGED <<dbvars, procvars, httpvars, tid, tcode>>

\* ------------------------------------------------------- specifications
\* initDB on an empty database: both tables exist and are empty.
StoreInit ==
    /\ urls = {}
    /\ urlSeq = 0
    /\ clicks = {}
    /\ clickSeq = 0
    /\ foreign_keys \in BOOLEAN
    /\ writer = NoWriter
    /\ now = 0
    /\ call = [p \in Procs \cup Tasks |-> IdleCall]
    /\ ret = [p \in Procs \cup Tasks |-> NoRet]
    /\ calls = 0
    /\ firstResp = [u \in URLInputs |-> NoResp]
    /\ tracked = [i \in TrackIds |-> 0]
    /\ resp = [p \in Procs |-> NoHTTP]
    /\ served = [i \in TrackIds |-> 0]

Init ==
    /\ StoreInit
    /\ tid = 0 /\ tstage = "id" /\ tcode = << >>
    /\ tparsed = [id |-> 0, err |-> FALSE]

Next ==
    \/ \E p \in Procs, u \in StoreURLs, ok \in BOOLEAN : CreateCall(p, u, ok)
    \/ \E p \in Procs : CreateFetchExisting(p)
    \/ \E p \in Procs : CreateInsert(p)
    \/ \E p \in Procs : CreateUpdate(p)
    \/ \E p \in Procs : CreateFetchCreated(p)
    \/ \E p \in Procs : CreateStorageError(p)
    \/ \E p \in Procs, c \in CodeInputs, ok \in BOOLEAN : GetURL(p, c, ok)
    \/ \E p \in Procs, c \in CodeInputs, ok \in BOOLEAN : GetStats(p, c, ok)
    \/ \E p \in Procs, i \in TrackIds, ok \in BOOLEAN : TrackCall(p, i, ok)
    \/ \E p \in Procs : TrackInsert(p)
    \/ \E p \in Procs : TrackUpdate(p)
    \/ \E p \in Procs : TrackCommit(p)
    \/ \E p \in Procs : TrackStorageError(p)
    \/ Tick

Spec == Init /\ [][Next]_vars

\* The code transform alone, applied to each of SampleIds.
CodecInit ==
    /\ StoreInit
    /\ tid \in SampleIds /\ tstage = "id" /\ tcode = << >>
    /\ tparsed = [id |-> 0, err |-> FALSE]

CodecNext == Generate \/ Parse

CodecSpec == CodecInit /\ [][CodecNext]_vars

\* obfuscateID alone, applied to every id of ObfuscateIds.
ObfuscateInit ==
    /\ StoreInit
    /\ tid \in ObfuscateIds /\ tstage = "id" /\ tcode = << >>
    /\ tparsed = [id |-> 0, err |-> FALSE]

ObfuscateNext == Obfuscate

ObfuscateSpec == ObfuscateInit /\ [][ObfuscateNext]_vars


\* parseShortCode alone, applied to every string of at most MaxCodeLen
\* characters of ParseChars: first and last digit, upper-case and lower-case
\* letter of the alphabet, and four characters outside it.
ParseChars == {"0", "9", "A", "Z", "a", "z", "-", "_", " ", "/"}

ParseInputs == UNION { [1 .. n -> ParseChars] : n \in 0 .. MaxCodeLen }

ParseInit ==
    /\ StoreInit
    /\ tid = 0 /\ tstage = "code" /\ tcode \in ParseInputs
    /\ tparsed = [id |-> 0, err |-> FALSE]

ParseNext == Parse

ParseSpec == ParseInit /\ [][ParseNext]_vars

\* The base62 encoding alone, applied to each of EncodeInputs.
Base62Init ==
    /\ StoreInit
    /\ tid \in EncodeInputs /\ tstage = "num" /\ tcode = << >>
    /\ tparsed = [id |-> 0, err |-> FALSE]

Base62Next == Encode \/ Decode

Base62Spec == Base62Init /\ [][Base62Next]_vars

\* createShortURL alone, called with every request string of URLTable.
ValidateNext ==
    \/ \E p \in Procs, u \in URLInputs, ok \in BOOLEAN : CreateCall(p, u, ok)
    \/ \E p \in Procs : CreateFetchExisting(p)
    \/ \E p \in Procs : CreateInsert(p)
    \/ \E p \in Procs : CreateUpdate(p)
    \/ \E p \in Procs : CreateFetchCreated(p)
    \/ \E p \in Procs : CreateStorageError(p)

ValidateSpec == Init /\ [][ValidateNext]_vars

\* The redirect traffic: records are created, GET /{shortened} is served,
\* the tracking goroutines run, statistics are read.
RedirectURLs == {"https://example.com"}

StatsCodes == { generateShortCode(1) }

RedirectNext ==
    \/ \E p \in Procs, u \in RedirectURLs, ok \in BOOLEAN : CreateCall(p, u, ok)
    \/ \E p \in Procs : CreateFetchExisting(p)
    \/ \E p \in Procs : CreateInsert(p)
    \/ \E p \in Procs : CreateUpdate(p)
    \/ \E p \in Procs : CreateFetchCreated(p)
    \/ \E p \in Procs, path \in RedirectPaths, ok \in BOOLEAN :
           handleRedirect(p, path, ok)
    \/ \E p \in Procs : redirectRespond(p)
    \/ \E g \in Tasks, ok \in BOOLEAN : TrackBegin(g, ok)
    \/ \E g \in Tasks : TrackInsert(g)
    \/ \E g \in Tasks : TrackUpdate(g)
    \/ \E g \in Tasks : TrackCommit(g)
    \/ \E g \in Tasks : TrackStorageError(g)
    \/ \E p \in Procs, c \in StatsCodes, ok \in BOOLEAN : GetStats(p, c, ok)
    \/ Tick

RedirectSpec == Init /\ [][RedirectNext]_vars

\* handleRedirect on its own over more paths: the special endpoints, the
\* paths "/stats" and "/qr" themselves, "//", and the paths of RedirectPaths.
PathInputs ==
    RedirectPaths \cup
    { <<"/", "t", "e", "s", "t", "/", "s", "t", "a", "t", "s">>,
      <<"/", "t", "e", "s", "t", "/", "q", "r">>,
      <<"/", "s", "t", "a", "t", "s">>,
      <<"/", "q", "r">>,
      <<"/", "/">> }

PathNext ==
    \/ \E p \in Procs, u \in RedirectURLs, ok \in BOOLEAN : CreateCall(p, u, ok)
    \/ \E p \in Procs : CreateFetchExisting(p)
    \/ \E p \in Procs : CreateInsert(p)
    \/ \E p \in Procs : CreateUpdate(p)
    \/ \E p \in Procs : CreateFetchCreated(p)
    \/ \E p \in Procs, path \in PathInputs, ok \in BOOLEAN :
           handleRedirect(p, path, ok)
    \/ \E p \in Procs : redirectRespond(p)

PathSpec == Init /\ [][PathNext]_vars


\* ------------------------------------- handleShorten, handleShortenGET, handleStats
\* The URLs of the shorten requests: a valid one, an invalid one, and none.
ShortenURLs == {"https://example.com", "not-a-url", ""}

\* The bodies of POST /s: one json.Decode rejects, and {"url": u}.
ShortenBodies ==
    {[decodes |-> FALSE, url |-> ""]} \cup
    { [decodes |-> TRUE, url |-> u] : u \in ShortenURLs }

\* The paths of GET /{shortened}/stats.
StatsPaths ==
    { <<"/">> \o generateShortCode(1) \o <<"/", "s", "t", "a", "t", "s">>,
      <<"/", "n", "o", "n", "e", "/", "s", "t", "a", "t", "s">>,
      <<"/", "/", "s", "t", "a", "t", "s">> }

\* The short codes the 201 responses on record carry for rawURL.
answered(rawURL) ==
    { resp[q].code : q \in { x \in Procs : /\ resp[x].op \in {"shorten", "shortenGET"}
                                             /\ resp[x].status = 201
                                             /\ resp[x].url = rawURL } }

\* POST /s up to the return of json.Decode or the start of createShortURL:
\* 400 "Invalid request body" for a body that does not decode.  ok is whether
\* the existence check of createShortURL runs without a database error.
handleShorten(p, body, ok) ==
    /\ ~ pending(p)
    /\ IF ~ body.decodes
       THEN /\ call[p].op = "idle"
            /\ calls < MaxCalls
            /\ calls' = calls + 1
            /\ resp' = [resp EXCEPT ![p] =
                   [NoHTTP EXCEPT !.op = "shorten", !.status = 400,
                                  !.err = "Invalid request body"]]
            /\ UNCHANGED <<dbvars, call, ret, firstResp, tracked, codecvars>>
       ELSE /\ createCall(p, body.url, ok)
            /\ resp' = [resp EXCEPT ![p] =
                   [NoHTTP EXCEPT !.op = "shorten", !.url = body.url,
                                  !.ok = ok, !.prior = answered(body.url)]]
    /\ UNCHANGED served

\* GET /s?u=URL up to the start of createShortURL: 400 "Missing 'u' query
\* parameter" when the parameter is empty.
handleShortenGET(p, urlParam, ok) ==
    /\ ~ pending(p)
    /\ IF urlParam = ""
       THEN /\ call[p].op = "idle"
            /\ calls < MaxCalls
            /\ calls' = calls + 1
            /\ resp' = [resp EXCEPT ![p] =
                   [NoHTTP EXCEPT !.op = "shortenGET", !.status = 400,
                                  !.err = "Missing 'u' query parameter"]]
            /\ UNCHANGED <<dbvars, call, ret, firstResp, tracked, codecvars>>
       ELSE /\ createCall(p, urlParam, ok)
            /\ resp' = [resp EXCEPT ![p] =
                   [NoHTTP EXCEPT !.op = "shortenGET", !.url = urlParam,
                                  !.ok = ok, !.prior = answered(urlParam)]]
    /\ UNCHANGED served

\* createShortURL has returned to the shorten handler: writeError with
\* http.StatusBadRequest for any error, writeJSON with http.StatusCreated and
\* the ShortenResponse otherwise.
shortenRespond(p) ==
    /\ pending(p)
    /\ call[p].op = "idle"
    /\ resp' = [resp EXCEPT ![p] =
           [@ EXCEPT !.status = IF ret[p].err # "nil" THEN 400 ELSE 201,
                     !.err = ret[p].err,
                     !.code = ret[p].short_code,
                     !.location = ret[p].original_url,
                     !.wrote = ret[p].wrote]]
    /\ UNCHANGED <<dbvars, procvars, served, codecvars>>

\* The short code handleStats asks getStats for.
statsCode(path) ==
    TrimSuffix(TrimPrefix(path, <<"/">>), <<"/", "s", "t", "a", "t", "s">>)

\* GET /{shortened}/stats: 400 for an empty short code, 404 for any error of
\* getStats, 200 with the statistics otherwise.  ok is whether the query of
\* getStats runs without a database error.
handleStats(p, path, ok) ==
    /\ ~ pending(p)
    /\ call[p].op = "idle"
    /\ calls < MaxCalls
    /\ calls' = calls + 1
    /\ LET stats == IF ok THEN getStats(statsCode(path))
                    ELSE [NoRet EXCEPT !.op = "getStats", !.err = "database error"]
       IN  resp' = [resp EXCEPT ![p] =
             IF statsCode(path) = << >>
             THEN [NoHTTP EXCEPT !.op = "stats", !.path = path, !.status = 400,
                                 !.err = "Short code is required"]
             ELSE [NoHTTP EXCEPT !.op = "stats", !.path = path,
                                 !.code = statsCode(path), !.ok = ok,
                                 !.lookup = TRUE, !.err = stats.err,
                                 !.found = IF rowsByCode(statsCode(path)) = {}
                                           THEN NULL
                                           ELSE <<getURL(statsCode(path)).id>>,
                                 !.status = IF stats.err # "nil" THEN 404 ELSE 200,
                                 !.location = stats.original_url]]
    /\ UNCHANGED <<dbvars, call, ret, firstResp, tracked, served, codecvars>>

\* The paths of GET /{shortened}/qr.
QRPaths ==
    { <<"/">> \o generateShortCode(1) \o <<"/", "q", "r">>,
      <<"/", "n", "o", "n", "e", "/", "q", "r">>,
      <<"/", "/", "q", "r">> }

\* The short code handleQR asks getURL for.
qrCode(path) == TrimSuffix(TrimPrefix(path, <<"/">>), <<"/", "q", "r">>)

\* The length of a.config.BaseURL, "http://localhost:7000".
BaseURLLen == 21

\* The bytes a QR code of level qrcode.Medium holds at most.
QRCapacity == 2331

\* qrcode.New and qr.PNG succeed for content that fits a QR code; the
\* content is BaseURL, "/" and the short code.
qrEncodes(shortCode) == BaseURLLen + 1 + Len(shortCode) <= QRCapacity

\* What handleQR answers for path; record is what getURL returned.
qrResp(path, ok, record) ==
    IF qrCode(path) = << >>
    THEN [NoHTTP EXCEPT !.op = "qr", !.path = path, !.status = 400,
                        !.err = "Short code is required"]
    ELSE [NoHTTP EXCEPT !.op = "qr", !.path = path, !.code = qrCode(path),
                        !.ok = ok, !.lookup = TRUE, !.err = record.err,
                        !.found = IF rowsByCode(qrCode(path)) = {}
                                  THEN NULL
                                  ELSE <<getURL(qrCode(path)).id>>,
                        !.status = IF record.err # "nil" THEN 404
                                   ELSE IF ~ qrEncodes(qrCode(path)) THEN 500
                                   ELSE 200]

\* handleQR counting the request as a click.
handleQRCounted(p, path, ok) ==
    /\ ~ pending(p)
    /\ call[p].op = "idle"
    /\ calls < MaxCalls
    /\ calls' = calls + 1
    /\ LET record == IF ok THEN getURL(qrCode(path))
                     ELSE [NoRet EXCEPT !.op = "getURL", !.err = "database error"]
       IN  /\ resp' = [resp EXCEPT ![p] = qrResp(path, ok, record)]
           /\ urls' = { IF r.short_code = qrCode(path) /\ qrCode(path) # << >> /\ ok
                        THEN [r EXCEPT !.clicks = @ + 1] ELSE r : r \in urls }
    /\ UNCHANGED <<urlSeq, clicks, clickSeq, foreign_keys, writer, now,
                   call, ret, firstResp, tracked, served, codecvars>>

\* GET /{shortened}/qr: 400 for an empty short code, 404 for any error of
\* getURL, 500 when the QR code cannot be made, 200 with the PNG otherwise.
\* ok is whether the query of getURL runs without a database error.
handleQR(p, path, ok) ==
    /\ ~ pending(p)
    /\ call[p].op = "idle"
    /\ calls < MaxCalls
    /\ calls' = calls + 1
    /\ LET record == IF ok THEN getURL(qrCode(path))
                     ELSE [NoRet EXCEPT !.op = "getURL", !.err = "database error"]
       IN  resp' = [resp EXCEPT ![p] = qrResp(path, ok, record)]
    /\ UNCHANGED <<dbvars, call, ret, firstResp, tracked, served, codecvars>>

\* The handlers over the store, each caller serving one request at a time.
HandlerNext ==
    \/ \E p \in Procs, body \in ShortenBodies, ok \in BOOLEAN :
           handleShorten(p, body, ok)
    \/ \E p \in Procs, u \in ShortenURLs, ok \in BOOLEAN :
           handleShortenGET(p, u, ok)
    \/ \E p \in Procs : CreateFetchExisting(p)
    \/ \E p \in Procs : CreateInsert(p)
    \/ \E p \in Procs : CreateUpdate(p)
    \/ \E p \in Procs : CreateFetchCreated(p)
    \/ \E p \in Procs : CreateStorageError(p)
    \/ \E p \in Procs : shortenRespond(p)
    \/ \E p \in Procs, path \in StatsPaths, ok \in BOOLEAN :
           handleStats(p, path, ok)
    \/ \E p \in Procs, ok \in BOOLEAN :
           handleRedirect(p, <<"/">> \o generateShortCode(1), ok)
    \/ \E p \in Procs : redirectRespond(p)

HandlerSpec == Init /\ [][HandlerNext]_vars


\* The same traffic with no storage failure, the goroutines scheduled
\* fairly: a goroutine that can take its next step eventually takes it.
TaskStep(g) ==
    TrackBegin(g, TRUE) \/ TrackInsert(g) \/ TrackUpdate(g) \/ TrackCommit(g)

FairNext ==
    \/ \E p \in Procs, u \in RedirectURLs : CreateCall(p, u, TRUE)
    \/ \E p \in Procs : CreateFetchExisting(p)
    \/ \E p \in Procs : CreateInsert(p)
    \/ \E p \in Procs : CreateUpdate(p)
    \/ \E p \in Procs : CreateFetchCreated(p)
    \/ \E p \in Procs, path \in RedirectPaths : handleRedirect(p, path, TRUE)
    \/ \E p \in Procs : redirectRespond(p)
    \/ \E g \in Tasks : TaskStep(g)
    \/ \E p \in Procs, c \in StatsCodes : GetStats(p, c, TRUE)
    \/ Tick

FairSpec ==
    Init /\ [][FairNext]_vars /\ \A g \in Tasks : WF_vars(TaskStep(g))

\* The stats and QR handlers beside redirect traffic, with no failure in
\* createShortURL and trackClick.
StatsNext ==
    \/ \E p \in Procs, u \in RedirectURLs : CreateCall(p, u, TRUE)
    \/ \E p \in Procs : CreateFetchExisting(p)
    \/ \E p \in Procs : CreateInsert(p)
    \/ \E p \in Procs : CreateUpdate(p)
    \/ \E p \in Procs : CreateFetchCreated(p)
    \/ \E p \in Procs : handleRedirect(p, <<"/">> \o generateShortCode(1), TRUE)
    \/ \E p \in Procs : redirectRespond(p)
    \/ \E g \in Tasks : TaskStep(g)
    \/ \E p \in Procs, path \in StatsPaths, ok \in BOOLEAN :
           handleStats(p, path, ok)
    \/ \E p \in Procs, path \in QRPaths, ok \in BOOLEAN : handleQR(p, path, ok)
    \/ Tick

StatsSpec == Init /\ [][StatsNext]_vars

\* ================================================================ claims

\* C1: round trip: for every id in 0 .. 2^31-1,
\* parseShortCode(generateShortCode(id)) returns id with no error.
C1_RoundTrip ==
    tstage = "parsed" => (tparsed.err = FALSE /\ tparsed.id = tid)

\* C2: idempotent creation: a createShortURL call for a URL that already
\* has a record returns the short_code and created_at the first successful
\* call for that URL returned, and writes nothing to urls.
C2_IdempotentCreate ==
    \A p \in Procs :
        (ret[p].op = "create" /\ ret[p].err = "nil" /\ ret[p].existing) =>
            /\ firstResp[ret[p].arg_url] # NoResp
            /\ ret[p].short_code = firstResp[ret[p].arg_url][1].short_code
            /\ ret[p].created_at = firstResp[ret[p].arg_url][1].created_at
            /\ ~ ret[p].wrote

\* Caller p's createShortURL call for rawURL, running or returned, did its
\* INSERT.
inserted(p, rawURL) ==
    \/ call[p].op = "create" /\ call[p].wrote /\ call[p].url = rawURL
    \/ ret[p].op = "create" /\ ret[p].wrote /\ ret[p].arg_url = rawURL

\* C3: urls holds at most one row per original_url, and of two concurrent
\* calls for the same new URL at most one INSERT succeeds.
C3_OneRowPerURL ==
    /\ \A r1, r2 \in urls : r1.original_url = r2.original_url => r1.id = r2.id
    /\ \A p, q \in Procs : \A u \in URLInputs :
           (p # q /\ inserted(p, u)) => ~ inserted(q, u)

\* C4: no two rows of urls carry the same short_code, the empty placeholder
\* included.
C4_UniqueShortCode ==
    \A r1, r2 \in urls : r1.short_code = r2.short_code => r1.id = r2.id

\* Two calls for distinct new URLs race: one holds its placeholder row, the
\* other is about to INSERT, and an earlier row has its code already.
C4_Witness ==
    \E p, q \in Procs :
        /\ call[p].op = "create" /\ call[p].pc = "update"
        /\ call[q].op = "create" /\ call[q].pc = "insert"
        /\ call[p].url # call[q].url
        /\ \E r \in urls : r.short_code # << >>

\* C5: each record's clicks equals the number of rows of clicks whose
\* url_id is the record's id.
C5_ClicksMatchEvents ==
    \A r \in urls : r.clicks = Cardinality({ c \in clicks : c.url_id = r.id })

\* Successful trackClick calls for the record id.
trackedCount(id) == IF id \in DOMAIN tracked THEN tracked[id] ELSE 0

\* C6: click accounting: a record on which n trackClick calls have returned
\* successfully has clicks = n, and last_clicked_at is set exactly when
\* n > 0; getURL and getStats report the same.
C6_ClickAccounting ==
    \A r \in urls :
        /\ r.clicks = trackedCount(r.id)
        /\ (r.last_clicked_at = NULL) <=> (trackedCount(r.id) = 0)
        /\ r.short_code # << >> =>
              /\ getURL(r.short_code).err = "nil"
              /\ getURL(r.short_code).clicks = trackedCount(r.id)
              /\ getStats(r.short_code).clicks = trackedCount(r.id)
              /\ (getURL(r.short_code).last_clicked_at = NULL)
                     <=> (trackedCount(r.id) = 0)
              /\ (getStats(r.short_code).last_clicked_at = NULL)
                     <=> (trackedCount(r.id) = 0)

\* Two trackClick calls for one record, whose creation has completed, have
\* returned successfully.
C6_Witness ==
    \E r \in urls :
        r.short_code # << >> /\ r.id \in TrackIds /\ tracked[r.id] = 2

ValidationErrors ==
    { "URL cannot be empty", "invalid URL format",
      "URL must use http or https scheme", "URL must have a valid host" }

\* The cases in which the claim says creation fails.
statedInvalid(rawURL) ==
    \/ rawURL = ""
    \/ ParseURL(rawURL).err
    \/ ParseURL(rawURL).Scheme \notin {"http", "https"}
    \/ ParseURL(rawURL).Host = ""

\* C7: createShortURL fails with a validation error exactly for an empty or
\* unparseable URL, a scheme other than http or https, or an empty host; such
\* a call writes nothing and no row of urls holds such a URL; the two example
\* URLs are accepted.
C7_Validation ==
    /\ \A p \in Procs :
          ret[p].op = "create" =>
              /\ (ret[p].err \in ValidationErrors) <=> statedInvalid(ret[p].arg_url)
              /\ (ret[p].err \in ValidationErrors) => ~ ret[p].wrote
              /\ ret[p].arg_url \in {"https://example.com", "http://example.com"}
                     => ret[p].err \notin ValidationErrors
    /\ \A r \in urls : ~ statedInvalid(r.original_url)

\* One call was refused for its empty host while another created a record.
C7_Witness ==
    \E p, q \in Procs :
        /\ ret[p].op = "create" /\ ret[p].err = "URL must have a valid host"
        /\ ret[q].op = "create" /\ ret[q].err = "nil"
        /\ urls # {}

\* C8: getURL(code) fails with the not-found error when no record has that
\* short_code, and getURL("") always fails.
C8_GetURLNotFound ==
    /\ \A c \in CodeInputs :
          rowsByCode(c) = {} => getURL(c).err = "short code not found"
    /\ getURL(<< >>).err # "nil"
    /\ \A p \in Procs :
          (ret[p].op = "getURL" /\ ret[p].arg_code = << >>) => ret[p].err # "nil"

\* C9: after createShortURL(url) returned short code c, getURL(c) succeeds
\* with short_code c and original_url url.
C9_CreatedCodeResolves ==
    \A p \in Procs :
        (ret[p].op = "create" /\ ret[p].err = "nil") =>
            /\ getURL(ret[p].short_code).err = "nil"
            /\ getURL(ret[p].short_code).short_code = ret[p].short_code
            /\ getURL(ret[p].short_code).original_url = ret[p].arg_url

\* C10: trackClick(id) for an id that is the id of no record returns an
\* error and leaves no click event for that id.
C10_TrackUnknownIdFails ==
    \A p \in Procs :
        (ret[p].op = "track" /\ ~ \E r \in urls : r.id = ret[p].arg_id) =>
            /\ ret[p].err # "nil"
            /\ ~ \E c \in clicks : c.url_id = ret[p].arg_id

\* Click events of record id among the rows C of clicks.
events(C, id) == Cardinality({ c \in C : c.url_id = id })

\* C11: trackClick is atomic: a trackClick call that returns an error leaves
\* urls and clicks as they were, and every step changes a record's clicks by
\* exactly the number of click events it adds for that record, so no state
\* shows an event without its increment or an increment without its event.
C11_TrackAtomic ==
    [][ /\ \A p \in Procs :
             (call[p].op = "track" /\ ret'[p].op = "track" /\ ret'[p].err # "nil")
                 => (urls' = urls /\ clicks' = clicks)
        /\ \A r \in urls : \E r2 \in urls' :
             /\ r2.id = r.id
             /\ r2.clicks - r.clicks = events(clicks', r.id) - events(clicks, r.id)
             /\ (r2.last_clicked_at # r.last_clicked_at) => (r2.clicks = r.clicks + 1)
      ]_vars

\* One trackClick for a record failed at its Commit after both statements
\* ran, another for the same record committed: one event, clicks = 1.
C11_Witness ==
    \E p, q \in Procs : \E r \in urls :
        /\ ret[p].op = "track" /\ ret[p].err = "failed to commit transaction"
        /\ ret[q].op = "track" /\ ret[q].err = "nil"
        /\ ret[p].arg_id = r.id /\ ret[q].arg_id = r.id
        /\ r.clicks = 1 /\ events(clicks, r.id) = 1

\* C12: a redirect request whose short code is that of a record, and whose
\* lookup ran, is answered 301 with Location the record's original_url, and
\* no step of a tracking goroutine, failing or not, changes a response.
C12_RedirectServed ==
    /\ [](\A p \in Procs :
            (resp[p].op = "redirect" /\ resp[p].ok /\ resp[p].found # NULL
                 /\ resp[p].code # << >>) =>
                /\ resp[p].status = 301
                /\ resp[p].location = rowById(resp[p].found[1]).original_url)
    /\ [][ (\E g \in Tasks : call[g].op = "track" /\ call'[g] # call[g])
               => resp' = resp ]_vars

\* A redirect was answered 301 and its trackClick then failed at Commit.
C12_Witness ==
    \E p \in Procs :
        /\ resp[p].op = "redirect" /\ resp[p].status = 301
        /\ resp[p].location = "https://example.com"
        /\ call[resp[p].task].op = "idle"
        /\ ret[resp[p].task].err = "failed to commit transaction"

\* The tracking goroutines running for record id.
running(id) ==
    Cardinality({ g \in Tasks : call[g].op = "track" /\ call[g].id = id })

\* The redirects for record id that are past their go statement and have
\* yet to write their response.
responding(id) ==
    Cardinality({ p \in Procs : call[p].op = "redirect" /\ call[p].id = id })

C14_CollisionFree ==
    tstage # "id" =>
        /\ tcode = generateShortCode(tid)
        /\ tcode # << >>
        /\ obfuscateID(tid) \in 0 .. Mask31
        /\ BitXor(MulMask(obfuscateID(tid), 59260789), xorMask) = tid
        /\ decodeBase62(tcode).num = obfuscateID(tid)
        /\ \A j \in SampleIds \ {tid} :
              /\ obfuscateID(j) # obfuscateID(tid)
              /\ generateShortCode(j) # tcode

\* The id whose obfuscated value is 0 has the one-character code "0", and
\* the largest 31-bit id has a code too.
C14_Witness ==
    /\ tstage = "code"
    /\ \/ tid = xorMask /\ tcode = <<"0">>
       \/ tid = Mask31 /\ Len(tcode) = 6

\* C15: encodeBase62 writes a non-negative integer most significant digit
\* first over the alphabet 0-9, A-Z, a-z: the code is non-empty, has no
\* leading "0" except for 0 itself, reads back to the number when its digits
\* are weighed from the left, and 0, 1, 61, 62, 3844 give "0", "1", "z",
\* "10", "100".
C15_EncodeBase62 ==
    tstage \in {"encoded", "decoded"} =>
        /\ tcode = encodeBase62(tid)
        /\ Len(tcode) >= 1
        /\ \A k \in 1 .. Len(tcode) : charValue(tcode[k]) \in 0 .. 61
        /\ (tcode[1] = "0") => (tid = 0 /\ Len(tcode) = 1)
        /\ decodeBase62(tcode) = [num |-> tid, err |-> FALSE]
        /\ tid = 0 => tcode = <<"0">>
        /\ tid = 1 => tcode = <<"1">>
        /\ tid = 61 => tcode = <<"z">>
        /\ tid = 62 => tcode = <<"1", "0">>
        /\ tid = 3844 => tcode = <<"1", "0", "0">>
        /\ tstage = "decoded" => tparsed = [id |-> tid, err |-> FALSE]

\* 3844 = 62^2 has been encoded as "100".
C15_Witness ==
    tstage = "encoded" /\ tid = 3844 /\ tcode = <<"1", "0", "0">>

\* generateShortCode of the ids the store can issue within MaxCalls calls.
issuedCodes == [i \in 1 .. MaxCalls |-> generateShortCode(i)]

\* C16: every row of urls is internally consistent: its short_code is
\* generateShortCode(its id) or the empty placeholder, and once the
\* createShortURL call that inserted the row has returned successfully the
\* row holds generateShortCode(its id), the code the call returned.
C16_RowConsistent ==
    /\ \A r \in urls :
          /\ r.id \in DOMAIN issuedCodes
          /\ r.short_code = << >> \/ r.short_code = issuedCodes[r.id]
    /\ \A p \in Procs :
          (ret[p].op = "create" /\ ret[p].err = "nil" /\ ret[p].wrote) =>
              \E r \in urls :
                  /\ r.original_url = ret[p].arg_url
                  /\ r.short_code = ret[p].short_code
                  /\ r.short_code = issuedCodes[r.id]
                  /\ r.short_code # << >>

\* A call that inserted its row has returned, and the row of another
\* create still holds the placeholder.
C16_Witness ==
    /\ \E p \in Procs : ret[p].op = "create" /\ ret[p].err = "nil" /\ ret[p].wrote
    /\ \E r \in urls : r.short_code = << >>
    /\ \E r \in urls : r.short_code # << >>

\* The ids of the rows U of urls.
idsOf(U) == { r.id : r \in U }

\* C17: record ids are positive, distinct and increasing in creation
\* order, and each successful INSERT gets an id greater than every id
\* assigned before, also after failed inserts; no id leaves the table.
C17_IdsIncrease ==
    /\ [](\A r1, r2 \in urls :
            /\ r1.id >= 1 /\ r1.id <= urlSeq
            /\ r1.id = r2.id => r1 = r2
            /\ r1.created_at < r2.created_at => r1.id < r2.id)
    /\ [][ /\ idsOf(urls) \subseteq idsOf(urls')
           /\ urlSeq' >= urlSeq
           /\ \A i \in idsOf(urls') \ idsOf(urls) :
                 i > urlSeq /\ \A j \in idsOf(urls) : i > j
           /\ Cardinality(idsOf(urls')) <= Cardinality(idsOf(urls)) + 1
           /\ (\E p \in Procs : call[p].pc = "insert" /\ call'[p].pc = "update")
                 => idsOf(urls') # idsOf(urls)
         ]_vars

\* An INSERT failed on the placeholder of a running create, and two
\* inserts succeeded, with ids 1 and 2.
C17_Witness ==
    /\ \E p \in Procs : ret[p].op = "create" /\ ret[p].err = "failed to insert URL"
    /\ idsOf(urls) = {1, 2}

\* C18: once createShortURL has returned a record, no step changes the
\* record's id, short_code, original_url or created_at, and no step removes
\* it.
C18_ReturnedRecordFrozen ==
    [][ \A p \in Procs :
          (ret[p].op = "create" /\ ret[p].err = "nil") =>
              \A r \in urls :
                  r.id = ret[p].id =>
                      \E r2 \in urls' :
                          /\ r2.id = r.id
                          /\ r2.short_code = r.short_code
                          /\ r2.original_url = r.original_url
                          /\ r2.created_at = r.created_at
      ]_vars

\* The fields getStats and getURL both report.
statsView(r) ==
    [err |-> r.err, short_code |-> r.short_code,
     original_url |-> r.original_url, created_at |-> r.created_at,
     clicks |-> r.clicks, last_clicked_at |-> r.last_clicked_at]

\* The codes the lookups are compared on: those of the calls and every
\* stored short_code.
lookupCodes == CodeInputs \cup { r.short_code : r \in urls }

\* C19: getStats is the same lookup as getURL: in every store state and for
\* every code it succeeds exactly when getURL does, reports the same
\* short_code, original_url, created_at, clicks and last_clicked_at, fails
\* with the not-found error when no record has the code, and a getStats call
\* returns that view and changes nothing in the store.
C19_StatsSameLookup ==
    /\ [](\A c \in lookupCodes :
            /\ statsView(getStats(c)) = statsView(getURL(c))
            /\ rowsByCode(c) = {} => getStats(c).err = "short code not found")
    /\ [][ \A p \in Procs :
             (ret'[p] # ret[p] /\ ret'[p].op = "getStats") =>
                 /\ UNCHANGED dbvars
                 /\ ret'[p].err # "database error" =>
                        statsView(ret'[p]) = statsView(getURL(ret'[p].arg_code))
         ]_vars

\* getStats returned a record with one click.
C19_Witness ==
    \E p \in Procs :
        /\ ret[p].op = "getStats" /\ ret[p].err = "nil"
        /\ ret[p].clicks = 1 /\ ret[p].last_clicked_at # NULL

\* The 62 characters of the alphabet.
Alphabet == { base62Chars[i] : i \in 1 .. Len(base62Chars) }

\* C20: parseShortCode returns a format error exactly when its input has a
\* character outside the alphabet; for a string of alphabet characters only
\* it returns an id and no error; it reads and writes no table.
C20_ParseFormatError ==
    /\ [](tstage = "parsed" =>
            /\ tparsed = parseShortCode(tcode)
            /\ tparsed.err <=> (\E k \in 1 .. Len(tcode) : tcode[k] \notin Alphabet)
            /\ tparsed.err => tparsed.id = 0
            /\ ~ tparsed.err => tparsed.id \in 0 .. Mask31)
    /\ [][ tstage' # tstage => UNCHANGED <<dbvars, procvars, httpvars>> ]_vars

\* A string with one character outside the alphabet between two of it was
\* refused.
C20_Witness ==
    tstage = "parsed" /\ tcode = <<"A", "/", "z">> /\ tparsed.err

\* C21: the decode constant is paired with the multiplier:
\* (mixPrime * mixPrimeInverse) mod 2^31 = 1, so that
\* deobfuscateID(obfuscateID(id)) = id for every id in 0 .. 2^31-1.
C21_InversePaired ==
    tstage # "id" =>
        /\ MulMask(mixPrime, mixPrimeInverse) = 1
        /\ deobfuscateID(obfuscateID(tid)) = tid

\* C22: when createShortURL calls for distinct new URLs interleave, an
\* INSERT that runs while a placeholder row (empty short_code) is present
\* fails with the insert error and adds no row; an INSERT adds its row only
\* when no placeholder is present, that is after the UPDATE of every
\* earlier INSERT.
C22_InsertMeetsPlaceholder ==
    [][ \A p \in Procs :
          (call[p].op = "create" /\ call[p].pc = "insert" /\ call'[p] # call[p]) =>
              IF \E r \in urls : r.short_code = << >>
              THEN /\ urls' = urls
                   /\ call'[p].op = "idle"
                   /\ ret'[p].err = "failed to insert URL"
              ELSE \/ /\ urls' = urls
                      /\ ret'[p].err = "failed to insert URL"
                   \/ /\ call'[p].pc = "update"
                      /\ \E r \in urls' \ urls :
                            /\ urls' = urls \cup {r}
                            /\ r.original_url = call[p].url
                            /\ r.short_code = << >>
      ]_vars

\* One call holds its placeholder row before its UPDATE; the call for
\* another URL has failed at its INSERT and the table has that one row.
C22_Witness ==
    \E p, q \in Procs :
        /\ call[q].op = "create" /\ call[q].pc = "update"
        /\ ret[p].op = "create" /\ ret[p].err = "failed to insert URL"
        /\ ret[p].arg_url # call[q].url
        /\ Cardinality(urls) = 1

\* A placeholder row left behind: no running call is about to UPDATE it.
stalePlaceholder(r) ==
    /\ r.short_code = << >>
    /\ ~ \E p \in Procs :
            call[p].op = "create" /\ call[p].pc = "update" /\ call[p].id = r.id

\* C23: a createShortURL whose UPDATE fails after its INSERT returns an
\* error and leaves its placeholder row in urls; the placeholder then stays
\* for ever, no row is added any more, and every INSERT of a later
\* createShortURL fails.
C23_StalePlaceholder ==
    [][ /\ \A p \in Procs :
             (call[p].op = "create" /\ call[p].pc = "update" /\ call'[p].op = "idle") =>
                 /\ ret'[p].err = "failed to update short code"
                 /\ \E r \in urls' : r.id = call[p].id /\ r.short_code = << >>
        /\ (\E r \in urls : stalePlaceholder(r)) =>
             /\ \A r \in urls : stalePlaceholder(r) =>
                    \E r2 \in urls' : r2.id = r.id /\ r2.short_code = << >>
             /\ idsOf(urls') = idsOf(urls)
             /\ \A p \in Procs :
                    (call[p].op = "create" /\ call[p].pc = "insert"
                         /\ call'[p] # call[p]) =>
                        /\ call'[p].op = "idle"
                        /\ ret'[p].err = "failed to insert URL"
      ]_vars

\* The UPDATE of one call failed and left the placeholder, and a later
\* call for another URL failed at its INSERT.
C23_Witness ==
    \E p, q \in Procs :
        /\ ret[p].op = "create" /\ ret[p].err = "failed to update short code"
        /\ ret[q].op = "create" /\ ret[q].err = "failed to insert URL"
        /\ ret[p].arg_url # ret[q].arg_url
        /\ \E r \in urls : stalePlaceholder(r) /\ r.original_url = ret[p].arg_url
        /\ Cardinality(urls) = 1

\* C24: ordering of a redirect: the 301 response of handleRedirect has been
\* written when the trackClick it dispatched commits.
C24_ResponseBeforeCommit ==
    [][ \A g \in Tasks :
          (call[g].op = "track" /\ call[g].pc = "commit" /\ ret'[g].err = "nil"
               /\ call'[g].op = "idle") =>
              ~ \E p \in Procs : call[p].op = "redirect" /\ call[p].task = g
      ]_vars

\* C25: a successful trackClick(id) appends exactly one click event, with
\* url_id = id, raises the clicks of record id by exactly 1 and sets its
\* last_clicked_at; every other record, every other field of record id and
\* all earlier click events are unchanged.
C25_TrackClickEffect ==
    [][ \A p \in Procs :
          (call[p].op = "track" /\ call'[p].op = "idle" /\ ret'[p].err = "nil") =>
              /\ clicks \subseteq clicks'
              /\ \E c \in clicks' \ clicks :
                    clicks' = clicks \cup {c} /\ c.url_id = call[p].id
              /\ \A r \in urls :
                    IF r.id = call[p].id
                    THEN [r EXCEPT !.clicks = r.clicks + 1,
                                   !.last_clicked_at = <<call[p].t_upd>>] \in urls'
                    ELSE r \in urls'
              /\ idsOf(urls') = idsOf(urls)
      ]_vars

\* A trackClick for one of two records has succeeded: that record has one
\* click, the other none.
C25_Witness ==
    \E p \in Procs : \E r1, r2 \in urls :
        /\ ret[p].op = "track" /\ ret[p].err = "nil" /\ ret[p].arg_id = r1.id
        /\ r1.clicks = 1 /\ r1.last_clicked_at # NULL
        /\ r2.id # r1.id /\ r2.clicks = 0 /\ r2.last_clicked_at = NULL

\* C26: in every reachable state each record has clicks >= 0 and has
\* last_clicked_at unset exactly when clicks = 0, and no step lowers a
\* record's clicks.
C26_ClicksMonotone ==
    /\ [](\A r \in urls :
            /\ r.clicks >= 0
            /\ (r.last_clicked_at = NULL) <=> (r.clicks = 0))
    /\ [][ \A r \in urls :
             \E r2 \in urls' : r2.id = r.id /\ r2.clicks >= r.clicks ]_vars

\* A record was clicked twice, the second time after the clock moved on.
C26_Witness ==
    \E r \in urls : r.clicks = 2 /\ r.last_clicked_at = <<1>>

\* The goroutines a step starts.
started == { g \in Tasks : call[g].op = "idle" /\ call'[g].op = "track" }

\* C27: handleRedirect starts trackClick exactly once for a request it
\* answers 301 and never for one it answers 404, and at every moment a
\* record's clicks is at most the number of 301 responses served for it.
C27_OneDispatchPer301 ==
    /\ [][ /\ \A p \in Procs :
                 (call[p].op = "idle" /\ call'[p].op = "redirect") =>
                     Cardinality(started) = 1
           /\ \A p \in Procs :
                 (resp'[p] # resp[p] /\ resp'[p].status = 404) => started = {}
           /\ \A p \in Procs :
                 (resp'[p] # resp[p] /\ resp'[p].status = 301) =>
                     (call[p].op = "redirect" /\ started = {})
           /\ started # {} =>
                 \E p \in Procs : call[p].op = "idle" /\ call'[p].op = "redirect"
         ]_vars
    /\ [](\A r \in urls : r.id \in TrackIds => r.clicks <= served[r.id])

\* The paths of the claim as stated: "/", "/health" and every path ending
\* in "/stats" or "/qr".
statedSpecialPath(path) ==
    \/ path = <<"/">>
    \/ path = <<"/", "h", "e", "a", "l", "t", "h">>
    \/ HasSuffix(path, <<"/", "s", "t", "a", "t", "s">>)
    \/ HasSuffix(path, <<"/", "q", "r">>)

\* The same with the suffixes sought after the leading slash of the path.
amendedSpecialPath(path) ==
    \/ path = <<"/">>
    \/ path = <<"/", "h", "e", "a", "l", "t", "h">>
    \/ HasSuffix(Tail(path), <<"/", "s", "t", "a", "t", "s">>)
    \/ HasSuffix(Tail(path), <<"/", "q", "r">>)

\* C28 as stated: handleRedirect answers 404 without a store lookup for
\* "/", "/health" and every path ending in "/stats" or "/qr".
C28_SpecialPathsAsStated ==
    \A p \in Procs :
        (resp[p].op = "redirect" /\ statedSpecialPath(resp[p].path)) =>
            (resp[p].status = 404 /\ ~ resp[p].lookup)

\* C28 amended: handleRedirect answers 404 without a store lookup for "/",
\* "/health" and every path whose part after the leading slash ends in
\* "/stats" or "/qr"; for any other path it looks up the path without its
\* leading slash and one trailing slash, so "/<code>/" is answered like
\* "/<code>": 301 with the record's original_url when the lookup finds a
\* record, 404 otherwise.
C28_SpecialPaths ==
    \A p \in Procs :
        resp[p].op = "redirect" =>
            IF amendedSpecialPath(resp[p].path)
            THEN resp[p].status = 404 /\ ~ resp[p].lookup /\ resp[p].task = "none"
            ELSE /\ resp[p].lookup
                 /\ resp[p].code =
                        IF Len(resp[p].path) > 1
                              /\ resp[p].path[Len(resp[p].path)] = "/"
                        THEN SubSeq(resp[p].path, 2, Len(resp[p].path) - 1)
                        ELSE Tail(resp[p].path)
                 /\ resp[p].status =
                        IF resp[p].ok /\ resp[p].found # NULL THEN 301 ELSE 404
                 /\ resp[p].status = 301 =>
                        resp[p].location = rowById(resp[p].found[1]).original_url

\* "/" was answered 404 with no lookup while a row held the empty code,
\* and "/<code>/" was answered 301.
C28_Witness ==
    \E p, q \in Procs :
        /\ resp[p].op = "redirect" /\ resp[p].path = <<"/">>
        /\ resp[p].status = 404 /\ resp[p].found # NULL
        /\ resp[q].op = "redirect" /\ resp[q].status = 301
        /\ resp[q].path = <<"/">> \o generateShortCode(1) \o <<"/">>

\* The errors of the store that are database failures.
storageError(err) ==
    err \in {"database error", "failed to fetch existing record",
             "failed to insert URL", "failed to update short code",
             "failed to fetch created record"}

\* C29: a database error inside createShortURL, getURL or getStats is not
\* answered with the 400 of validation errors nor the 404 of unknown codes.
C29_StorageFailureStatus ==
    \A p \in Procs :
        (resp[p].op \in {"shorten", "shortenGET", "stats", "redirect"}
             /\ storageError(resp[p].err)) =>
            resp[p].status \notin {400, 404}

\* The request of a shorten response was a caller mistake: a body that does
\* not decode, a missing 'u' parameter, or a URL validateURL rejects.
callerMistake(r) ==
    \/ r.err \in {"Invalid request body", "Missing 'u' query parameter"}
    \/ (r.err \notin {"Invalid request body", "Missing 'u' query parameter"}
           /\ validateURL(r.url) # "nil")

\* C30: a shorten handler whose createShortURL succeeded answers 201 with a
\* non-empty short code, the code of every 201 response on record for the
\* same URL when the request arrived; a body that does not decode, a missing
\* 'u' parameter and an invalid URL are answered 400, and the request
\* creates no record.
C30_ShortenResponses ==
    /\ [](\A p \in Procs :
            (resp[p].op \in {"shorten", "shortenGET"} /\ resp[p].status # 0) =>
                /\ (resp[p].err = "nil" /\ ~ callerMistake(resp[p])) =>
                       /\ resp[p].status = 201
                       /\ resp[p].code # << >>
                       /\ \A c \in resp[p].prior : c = resp[p].code
                /\ callerMistake(resp[p]) =>
                       (resp[p].status = 400 /\ ~ resp[p].wrote))
    /\ [][ \A p \in Procs :
              (resp'[p] # resp[p] /\ resp'[p].op \in {"shorten", "shortenGET"}
                  /\ callerMistake(resp'[p])) => urls' = urls ]_vars


\* The short code of a stats or QR request: the path without its leading
\* slash and its "/stats" or "/qr".
requestedCode(r) ==
    SubSeq(r.path, 2, Len(r.path) - (IF r.op = "stats" THEN 6 ELSE 3))

\* C31: handleStats and handleQR answer 400 for an empty short code and,
\* when the query runs, 404 for a code no record holds and 200 for a stored
\* code; a stats or QR request leaves urls and clicks as they were and
\* starts no trackClick.
C31_StatsAndQRReadOnly ==
    /\ [](\A p \in Procs :
            resp[p].op \in {"stats", "qr"} =>
                IF requestedCode(resp[p]) = << >>
                THEN resp[p].status = 400
                ELSE resp[p].ok =>
                        /\ resp[p].code = requestedCode(resp[p])
                        /\ resp[p].status =
                               IF resp[p].found = NULL THEN 404 ELSE 200)
    /\ [][ \A p \in Procs :
              (resp'[p] # resp[p] /\ resp'[p].op \in {"stats", "qr"}) =>
                  /\ urls' = urls
                  /\ clicks' = clicks
                  /\ \A g \in Tasks : call'[g] = call[g] ]_vars

\* A QR request was answered 200 for a record that has been clicked.
C31_Witness ==
    \E p \in Procs :
        /\ resp[p].op = "qr" /\ resp[p].status = 200
        /\ resp[p].found # NULL
        /\ rowById(resp[p].found[1]).clicks = 1
        /\ rowById(resp[p].found[1]).last_clicked_at # NULL


\* C32: sequential ids do not give sequential codes: for every id with id
\* and id+1 in 0 .. 2^31-1, obfuscateID(id+1) differs from
\* obfuscateID(id) + 1, also when the sum is taken modulo 2^31.
C32_NotSequential ==
    (tstage = "obfuscated" /\ tid \in 0 .. (Mask31 - 1)) =>
        /\ tparsed.id = obfuscateID(tid)
        /\ obfuscateID(tid + 1) # AddMask(tparsed.id, 1)

\* The id with the longest carry, 2^30 - 1, has been obfuscated.
C32_Witness ==
    /\ tstage = "obfuscated" /\ tid = 2^30 - 1
    /\ tparsed.id # obfuscateID(2^30) /\ tparsed.id # tid

\* C33: obfuscation is active and stays in range: for every int64 id,
\* obfuscateID(id) lies in 0 .. 2^31-1, and for the ids 0, 1, 100 and 999999
\* it differs from id.
C33_ActiveInRange ==
    tstage = "obfuscated" =>
        /\ tparsed.id \in 0 .. Mask31
        /\ tid \in {0, 1, 100, 999999} => tparsed.id # tid

\* A negative id has been obfuscated to a value of 0 .. 2^31-1.
C33_Witness ==
    tstage = "obfuscated" /\ tid = -1 /\ tparsed.id \in 0 .. Mask31

\* C34: every short code generateShortCode returns for an id in 0 .. 2^31-1
\* is a non-empty string of at most 6 characters of the alphabet, with no
\* leading "0" unless the code is exactly "0".
C34_CodeShape ==
    (tstage # "id" /\ tid \in 0 .. Mask31) =>
        /\ Len(tcode) \in 1 .. 6
        /\ \A k \in 1 .. Len(tcode) : tcode[k] \in Alphabet
        /\ tcode[1] = "0" => tcode = <<"0">>

\* The largest id has a code of 6 characters that does not start with "0".
C34_Witness ==
    tstage = "code" /\ tid = Mask31 /\ Len(tcode) = 6 /\ tcode[1] # "0"

\* C35: base62 round trip: for every n in 0 .. 2^31-1,
\* decodeBase62(encodeBase62(n)) returns n with no error.
C35_Base62RoundTrip ==
    tstage = "decoded" =>
        (tparsed.id = tid /\ ~ tparsed.err /\ tid \in 0 .. Mask31)

\* The largest 31-bit number has been encoded and decoded.
C35_Witness ==
    tstage = "decoded" /\ tid = Mask31 /\ tparsed.id = Mask31 /\ Len(tcode) = 6

====
